---- MODULE Spec2Model ----
(***************************************************************************)
(* The spam/ham notebook (src/notebook/machineLearning.ipynb) as a state   *)
(* machine: the Dataset Preparer cells, the Model Trainer cells and the    *)
(* inference helper predictSpamStatus, run cell by cell in one kernel.     *)
(*                                                                         *)
(* Data representation.                                                    *)
(*  - A text is a sequence of raw tokens (what str.split(" ") separates).  *)
(*    Raw token 0 is a token made of filtered characters only (it cleans   *)
(*    to the empty string); raw token 2w-1 is word w spelled in lower      *)
(*    case and 2w is word w spelled with capitals.  Words are 1, 2, ...    *)
(*  - A Python str of an int is the sequence of its decimal digits.        *)
(*  - A file is <<>> when absent and <<content>> when present.             *)
(*  - A numpy matrix is a sequence of rows, a row a sequence of integers.  *)
(***************************************************************************)
EXTENDS Integers, Sequences, FiniteSets, TLC

\* Tokenizer(num_words=MAX_NUM_WORDS)
MAX_NUM_WORDS == 280

\* pad_sequences(sequences, maxlen=MAX_SEQ_LENGTH)
MAX_SEQ_LENGTH == 300

\* train_test_split(..., test_size=0.33, ...), in hundredths
TEST_SIZE_PCT == 33

\* Dense(2, activation='softmax')
DENSE_UNITS == 2

\* Largest number of rows of the small texts in an input CSV.
MaxRows == 3

\* Largest number of stage runs (preparer, trainer, inference) in a behaviour.
MaxRuns == 4

----------------------------------------------------------------------------
(* State *)

VARIABLES
    csvFile,             \* the file at datasetInputFile
    dumpFile,            \* the file at trainingDumpFile (the pickle bundle)
    modelFile,           \* the file at trainedModelFile
    metadataFile,        \* the file at trainedMetadataFile
    tokenizerFile,       \* the file at trainedTokenizerFile
    pc,                  \* the statement the kernel runs next
    raisedAt,            \* the statement whose exception ended the last run
    runs,                \* stage runs started so far
    labels, texts, labelLegend, labelLegendInverted, labelsAsInt,
    tokenizer, sequences, X, y,
    ind_train, ind_test, \* the index arrays train_test_split draws
    X_train, X_test, y_train, y_test,
    maxSeqLength, maxNumWords, model, metadata,
    st, xInput, preds    \* the text, model input and result of the last prediction

files == <<csvFile, dumpFile, modelFile, metadataFile, tokenizerFile>>

control == <<pc, raisedAt, runs>>

prepVars == <<labels, texts, labelsAsInt, sequences, X, y, ind_train, ind_test>>

sharedVars == <<labelLegend, labelLegendInverted, tokenizer, X_train, X_test, y_train, y_test>>

trainVars == <<maxSeqLength, maxNumWords>>

inferVars == <<metadata, st, xInput, preds>>

vars == <<files, control, prepVars, sharedVars, trainVars, model, inferVars>>

----------------------------------------------------------------------------
(* Python helpers *)

Range(s) == {s[i] : i \in DOMAIN s}

Max(a, b) == IF a >= b THEN a ELSE b

Digit(d) ==
    CASE d = 0 -> "0" [] d = 1 -> "1" [] d = 2 -> "2" [] d = 3 -> "3"
      [] d = 4 -> "4" [] d = 5 -> "5" [] d = 6 -> "6" [] d = 7 -> "7"
      [] d = 8 -> "8" [] d = 9 -> "9"

DigitValue(c) == CHOOSE d \in 0..9 : Digit(d) = c

\* '%i' % v and str(i) for an int >= 0: the decimal digits, most significant first.
RECURSIVE str(_)
str(i) == IF i < 10 THEN <<Digit(i)>> ELSE Append(str(i \div 10), Digit(i % 10))

\* int(s) for a string of decimal digits.
RECURSIVE int(_)
int(s) ==
    IF Len(s) = 0 THEN 0
    ELSE 10 * int(SubSeq(s, 1, Len(s) - 1)) + DigitValue(s[Len(s)])

\* The element of a singleton.
Only(S) == CHOOSE x \in S : TRUE

\* A dict as a TLA+ function; d[k] raises KeyError when k is no key.
HasKey(d, k) == k \in DOMAIN d

----------------------------------------------------------------------------
(* keras.preprocessing.text *)

\* text.lower(), then every filtered character replaced by the separator,
\* then split(" ") and the empty strings dropped.
text_to_word_sequence(text) ==
    SelectSeq([i \in DOMAIN text |-> (text[i] + 1) \div 2], LAMBDA w : w # 0)

\* The name tokenizer before any cell has bound it.
NoTokenizer ==
    [num_words |-> 0, document_count |-> 0,
     word_counts |-> <<>>, word_index |-> <<>>, index_word |-> <<>>]

\* The object the name tokenizer already holds, its cap set to n.
Tokenizer_Reused(n) == [tokenizer EXCEPT !.num_words = n]

\* Tokenizer(num_words=n): a new object, nothing counted yet.
Tokenizer(n) ==
    [num_words |-> n, document_count |-> 0,
     word_counts |-> <<>>, word_index |-> <<>>, index_word |-> <<>>]

RECURSIVE Flatten(_)
Flatten(seqs) ==
    IF Len(seqs) = 0 THEN <<>> ELSE Flatten(SubSeq(seqs, 1, Len(seqs) - 1)) \o seqs[Len(seqs)]

\* The distinct elements of s, in the order of their first occurrence.
FirstAt(s, first) == [k \in DOMAIN first |-> s[first[k]]]

FirstOccurrences(s) ==
    FirstAt(s, SelectSeq([i \in DOMAIN s |-> i],
                         LAMBDA i : \A j \in 1..(i - 1) : s[j] # s[i]))

\* word_counts is an OrderedDict: a sequence of <<word, count>> in insertion
\* order.  The count of the k-th word after the words of flat are counted.
CountWords(old, flat, order) ==
    [k \in DOMAIN order |->
        (IF k <= Len(old) THEN old[k][2] ELSE 0)
        + Cardinality({i \in DOMAIN flat : flat[i] = order[k]})]

\* wcounts.sort(key=lambda x: x[1], reverse=True): by count, highest first;
\* the sort is stable, so words of equal count stay in insertion order.
\* The position of the k-th word in the sorted list.
SortRank(cnt) ==
    [k \in DOMAIN cnt |->
        1 + Cardinality({j \in DOMAIN cnt :
                cnt[j] > cnt[k] \/ (cnt[j] = cnt[k] /\ j < k)})]

\* sorted_voc
SortedVoc(order, rank) ==
    [r \in DOMAIN order |-> order[CHOOSE k \in DOMAIN rank : rank[k] = r]]

\* word_index = dict(zip(sorted_voc, range(1, len(sorted_voc) + 1)))
WordIndex(sorted_voc, order, rank) ==
    [w \in Range(sorted_voc) |-> rank[CHOOSE k \in DOMAIN order : order[k] = w]]

Fitted(tok, nTexts, order, cnt, rank, sorted_voc) ==
    [num_words      |-> tok.num_words,
     document_count |-> tok.document_count + nTexts,
     word_counts    |-> [k \in DOMAIN order |-> <<order[k], cnt[k]>>],
     word_index     |-> WordIndex(sorted_voc, order, rank),
     index_word     |-> sorted_voc]

\* fit_on_texts counts every word of every text, adding to the counts the
\* tokenizer already holds, and rebuilds word_index and index_word.
\* (Each intermediate list is bound once, as the element of a singleton.)
fit_on_texts(tok, fitTexts) ==
    Only({ Only({ Only({ Only({ Only({
        Fitted(tok, Len(fitTexts), order, cnt, rank, sorted_voc)
      : sorted_voc \in {SortedVoc(order, rank)} })
      : rank \in {SortRank(cnt)} })
      : cnt \in {CountWords(tok.word_counts, flat, order)} })
      : order \in {FirstOccurrences([k \in DOMAIN tok.word_counts |-> tok.word_counts[k][1]] \o flat)} })
      : flat \in {Flatten([t \in DOMAIN fitTexts |-> text_to_word_sequence(fitTexts[t])])} })

\* texts_to_sequences: words not in word_index are skipped, and so are the
\* words whose index is num_words or more (num_words None, here 0: no cap).
IndexesOf(tok, kept) == [i \in DOMAIN kept |-> tok.word_index[kept[i]]]

\* text_to_sequence keeping the words of index num_words as well.
text_to_sequence_Inclusive(tok, text) ==
    IndexesOf(tok, SelectSeq(text_to_word_sequence(text), LAMBDA w :
                    /\ w \in DOMAIN tok.word_index
                    /\ (tok.num_words = 0 \/ tok.word_index[w] <= tok.num_words)))

text_to_sequence(tok, text) ==
    IndexesOf(tok, SelectSeq(text_to_word_sequence(text), LAMBDA w :
                    /\ w \in DOMAIN tok.word_index
                    /\ (tok.num_words = 0 \/ tok.word_index[w] < tok.num_words)))

texts_to_sequences(tok, encTexts) ==
    [t \in DOMAIN encTexts |-> text_to_sequence(tok, encTexts[t])]

----------------------------------------------------------------------------
(* keras.preprocessing.sequence, keras.utils *)

\* One row of pad_sequences(..., padding='pre', truncating='pre', value=0):
\* the last maxlen entries of the sequence, written at the end of a row of zeros.
\* PadLeft with padding='post': the zeros follow the sequence.
PadLeft_Post(trunc, maxlen) ==
    [i \in 1..maxlen |-> IF i <= Len(trunc) THEN trunc[i] ELSE 0]

PadLeft(trunc, maxlen) ==
    [i \in 1..maxlen |->
        IF i <= maxlen - Len(trunc) THEN 0 ELSE trunc[i - (maxlen - Len(trunc))]]

\* pad_row without the truncation of a sequence longer than maxlen.
pad_row_NoTruncate(s, maxlen) ==
    IF Len(s) > maxlen THEN s ELSE PadLeft(s, maxlen)

pad_row(s, maxlen) ==
    PadLeft(IF Len(s) > maxlen THEN SubSeq(s, Len(s) - maxlen + 1, Len(s)) ELSE s, maxlen)

pad_sequences(seqs, maxlen) == [r \in DOMAIN seqs |-> pad_row(seqs[r], maxlen)]

\* to_categorical(y) without num_classes: num_classes = max(y) + 1; np.max of
\* an empty array raises.
to_categorical_raises(ints) == Len(ints) = 0

SeqMax(ints) == CHOOSE m \in Range(ints) : \A v \in Range(ints) : v <= m

OneHot(ints, num_classes) ==
    [r \in DOMAIN ints |-> [c \in 1..num_classes |-> IF c - 1 = ints[r] THEN 1 ELSE 0]]

to_categorical(ints) == OneHot(ints, SeqMax(ints) + 1)

----------------------------------------------------------------------------
(* sklearn.model_selection *)

\* np.random.RandomState(42).permutation(n), as positions 1..n.
permutation(n) ==
    CASE n = 0 -> <<>>
      [] n = 1 -> <<1>>
      [] n = 2 -> <<2, 1>>
      [] n = 3 -> <<1, 2, 3>>
      [] n = 4 -> <<2, 4, 1, 3>>
      [] n = 5 -> <<2, 5, 3, 1, 4>>
      [] n = 6 -> <<1, 2, 6, 3, 5, 4>>
      [] n = 7 -> <<1, 2, 6, 3, 5, 4, 7>>
      [] n = 8 -> <<2, 6, 1, 8, 3, 5, 4, 7>>

\* n_test = ceil(test_size * n_samples), n_train = n_samples - n_test.
n_test_of(n) == (TEST_SIZE_PCT * n + 99) \div 100

n_train_of(n) == n - n_test_of(n)

\* _validate_shuffle_split raises when the train set would be empty.
train_test_split_raises(n) == n_train_of(n) = 0

\* ShuffleSplit: the first n_test positions of the permutation are the test
\* rows, the rest the train rows.
ind_test_of(n) == SubSeq(permutation(n), 1, n_test_of(n))

\* ind_train_of starting one position early: the last test row is a train row too.
ind_train_of_Overlap(n) ==
    SubSeq(permutation(n), Max(1, n_test_of(n)), n_test_of(n) + n_train_of(n))

ind_train_of(n) == SubSeq(permutation(n), n_test_of(n) + 1, n_test_of(n) + n_train_of(n))

\* _safe_indexing(a, indices)
Take(a, ind) == [k \in DOMAIN ind |-> a[ind[k]]]

----------------------------------------------------------------------------
(* json, and the Tokenizer's own JSON form *)

\* json.dump of the metadata dict: an object with the same str keys; an int
\* is written as its decimal digits, a str as it is.
json_dump(obj) ==
    [label_legend_inverted |-> obj.label_legend_inverted,
     label_legend |-> [k \in DOMAIN obj.label_legend |-> str(obj.label_legend[k])],
     max_seq_length |-> str(obj.max_seq_length),
     max_words |-> str(obj.max_words)]

\* json.load of the metadata file: the numbers parsed back to int.
json_load(doc) ==
    [label_legend_inverted |-> doc.label_legend_inverted,
     label_legend |-> [k \in DOMAIN doc.label_legend |-> int(doc.label_legend[k])],
     max_seq_length |-> int(doc.max_seq_length),
     max_words |-> int(doc.max_words)]

\* Tokenizer.to_json: each dict is dumped on its own; JSON object keys are
\* strings, so the int keys of index_word become str(key).
IndexWordJson(index_word) ==
    [k \in {str(i) : i \in DOMAIN index_word} |-> index_word[int(k)]]

IndexWordFromJson(obj) ==
    [i \in {int(k) : k \in DOMAIN obj} |-> obj[str(i)]]

to_json(tok) ==
    [class_name |-> "Tokenizer",
     config |->
        [num_words      |-> tok.num_words,
         document_count |-> tok.document_count,
         word_counts    |-> tok.word_counts,
         word_index     |-> tok.word_index,
         index_word     |-> IndexWordJson(tok.index_word)]]

\* tokenizer_from_json: Tokenizer(**config), then the dicts are set from
\* their JSON, the keys of index_word converted back with int(k).
FromConfig(config) ==
    [num_words      |-> config.num_words,
     document_count |-> config.document_count,
     word_counts    |-> config.word_counts,
     word_index     |-> config.word_index,
     index_word     |-> IndexWordFromJson(config.index_word)]

\* tokenizer_from_json that does not pass num_words on: the default, no cap.
tokenizer_from_json_NoCap(doc) == [FromConfig(doc.config) EXCEPT !.num_words = 0]

tokenizer_from_json(doc) == FromConfig(doc.config)

----------------------------------------------------------------------------
(* The network, as far as its shapes go *)

\* Sequential(): no layer yet.
\* weights stands for what the layers have learnt: nothing (<<>>) before
\* fit, and after fit the training pairs the weights were computed from.
NoModel ==
    [input_dim |-> 0, input_length |-> 0, units |-> 0, fitted |-> FALSE, weights |-> <<>>]

\* Embedding(maxNumWords, embedDim, input_length=X_train.shape[1]) ... Dense(2)
Sequential(numWords, inputLength) ==
    [input_dim |-> numWords, input_length |-> inputLength,
     units |-> DENSE_UNITS, fitted |-> FALSE, weights |-> <<>>]

\* model.fit raises on a shape mismatch between the data and the layers.
fit_raises(m, Xs, ys) ==
    \/ \E r \in DOMAIN Xs : Len(Xs[r]) # m.input_length
    \/ \E r \in DOMAIN ys : Len(ys[r]) # m.units

\* The model after model.fit(Xs, ys, ...): its weights come from the rows of
\* Xs paired, position by position, with the rows of ys.
fitted_model(m, Xs, ys) == [m EXCEPT !.fitted = TRUE, !.weights = [X |-> Xs, y |-> ys]]

\* spamModel.predict(xInput)[0]: one probability per output unit; the
\* probability at output position i (from 0) is written <<"p", i>>.
predict_row(m) == [u \in 1..m.units |-> <<"p", u - 1>>]

\* The dict comprehension {pLabelLegendInverted[str(i)]: x for i, x in enumerate(preds)}
labeledPredictions_raises(pLabelLegendInverted, predsRow) ==
    \E i \in DOMAIN predsRow : ~HasKey(pLabelLegendInverted, str(i - 1))

labeledPredictions_of(pLabelLegendInverted, predsRow) ==
    [k \in {pLabelLegendInverted[str(i - 1)] : i \in DOMAIN predsRow} |->
        predsRow[CHOOSE i \in DOMAIN predsRow :
                    /\ pLabelLegendInverted[str(i - 1)] = k
                    /\ \A j \in DOMAIN predsRow :
                          pLabelLegendInverted[str(j - 1)] = k => j <= i]]

----------------------------------------------------------------------------
(* Inputs *)

Lower(w) == 2 * w - 1

Capital(w) == 2 * w

Punct == 0

\* "free Win !! free"
TextA == <<Lower(1), Capital(2), Punct, Lower(1)>>

\* "win ?? Call win"
TextB == <<Lower(2), Punct, Capital(3), Lower(2)>>

\* "..." : no word at all
TextC == <<Punct>>

\* one word that no other sample text holds
TextN == <<Lower(MAX_NUM_WORDS + 2)>>

\* the last word of BigText
TextLast == <<Capital(MAX_NUM_WORDS + 1)>>

\* a word no corpus holds
TextOov == <<Lower(MAX_NUM_WORDS + 3)>>

\* MAX_NUM_WORDS + 1 distinct words, then word 1 again until the text has
\* more than MAX_SEQ_LENGTH words of the MAX_NUM_WORDS - 1 most frequent.
BigText ==
    [i \in 1..(MAX_NUM_WORDS + 1) |-> Lower(i)]
    \o [i \in 1..Max(5, MAX_SEQ_LENGTH - MAX_NUM_WORDS + 5) |-> Lower(1)]

SmallRows ==
    { [label |-> "ham",  text |-> TextA],
      [label |-> "spam", text |-> TextB],
      [label |-> "ham",  text |-> TextC],
      [label |-> "spam", text |-> TextN],
      [label |-> "eggs", text |-> TextA] }

BigRow == [label |-> "spam", text |-> BigText]

RECURSIVE SeqsUpTo(_, _)
SeqsUpTo(S, n) ==
    IF n = 0 THEN {<<>>}
    ELSE LET shorter == SeqsUpTo(S, n - 1)
         IN  shorter \cup {Append(s, e) : s \in {t \in shorter : Len(t) = n - 1}, e \in S}

\* The CSVs: up to MaxRows small rows, or the big row with at most one small
\* row before it and at most one after it.
CsvRows ==
    SeqsUpTo(SmallRows, MaxRows)
    \cup {s \o <<BigRow>> \o t : s \in SeqsUpTo(SmallRows, 1), t \in SeqsUpTo(SmallRows, 1)}

\* A file that is there and parses, one that is there and does not parse
\* (or lacks a column), and no file.
CsvFiles ==
    {<<[parses |-> TRUE, rows |-> r]>> : r \in CsvRows}
    \cup {<<[parses |-> FALSE, rows |-> <<>>]>>, <<>>}

PredictTexts == {TextA, TextC, TextLast, TextOov, BigText}

----------------------------------------------------------------------------
(* Init: the kernel has run nothing, the output directories are empty *)

Init ==
    /\ csvFile \in CsvFiles
    /\ dumpFile = <<>> /\ modelFile = <<>> /\ metadataFile = <<>> /\ tokenizerFile = <<>>
    /\ pc = "idle" /\ raisedAt = "none" /\ runs = 0
    /\ labels = <<>> /\ texts = <<>> /\ labelLegend = <<>> /\ labelLegendInverted = <<>>
    /\ labelsAsInt = <<>> /\ tokenizer = NoTokenizer /\ sequences = <<>>
    /\ X = <<>> /\ y = <<>> /\ ind_train = <<>> /\ ind_test = <<>>
    /\ X_train = <<>> /\ X_test = <<>> /\ y_train = <<>> /\ y_test = <<>>
    /\ maxSeqLength = 0 /\ maxNumWords = 0 /\ model = NoModel
    /\ metadata = <<>> /\ st = <<>> /\ xInput = <<>> /\ preds = <<>>

\* No run is in progress: a first cell may be run.
AtRest == pc \in {"idle", "prep_done", "train_done", "raised", "infer_ready"}

\* An uncaught exception at statement s: the rest of the stage is not run.
Raise(s) == pc' = "raised" /\ raisedAt' = s

Goto(s) == pc' = s /\ raisedAt' = "none"

----------------------------------------------------------------------------
(* Dataset Preparer *)

\* df = pd.read_csv(datasetInputFile); labels, texts = the two columns
PrepReadCsv ==
    /\ AtRest /\ runs < MaxRuns
    /\ runs' = runs + 1
    /\ IF csvFile = <<>> \/ ~csvFile[1].parses
       THEN /\ Raise("read_csv")
            /\ UNCHANGED <<labels, texts>>
       ELSE /\ labels' = [i \in DOMAIN csvFile[1].rows |-> csvFile[1].rows[i].label]
            /\ texts' = [i \in DOMAIN csvFile[1].rows |-> csvFile[1].rows[i].text]
            /\ Goto("prep_legend")
    /\ UNCHANGED <<files, labelsAsInt, sequences, X, y, ind_train, ind_test,
                   sharedVars, trainVars, model, inferVars>>

\* labelLegend = {'ham': 0, 'spam': 1}
LabelLegend == [ham |-> 0, spam |-> 1]

\* InvertLegend with the classes numbered from 1.
InvertLegend_OneBased(legend) ==
    [s \in {str(legend[k] + 1) : k \in DOMAIN legend} |->
        CHOOSE k \in DOMAIN legend : str(legend[k] + 1) = s]

\* labelLegendInverted = {'%i' % v: k for k, v in labelLegend.items()}
InvertLegend(legend) ==
    [s \in {str(legend[k]) : k \in DOMAIN legend} |->
        CHOOSE k \in DOMAIN legend : str(legend[k]) = s]

\* PrepLegend with labelLegend.get(x, 0): an unknown label counts as ham.
PrepLegend_Lenient ==
    /\ pc = "prep_legend"
    /\ labelLegend' = LabelLegend
    /\ labelLegendInverted' = InvertLegend(labelLegend')
    /\ labelsAsInt' = [i \in DOMAIN labels |->
                          IF HasKey(labelLegend', labels[i]) THEN labelLegend'[labels[i]] ELSE 0]
    /\ Goto("prep_tokenize")
    /\ UNCHANGED <<files, runs, labels, texts, sequences, X, y, ind_train, ind_test,
                   tokenizer, X_train, X_test, y_train, y_test,
                   trainVars, model, inferVars>>

\* labelsAsInt = [labelLegend[x] for x in labels]
PrepLegend ==
    /\ pc = "prep_legend"
    /\ labelLegend' = LabelLegend
    /\ labelLegendInverted' = InvertLegend(labelLegend')
    /\ IF \E i \in DOMAIN labels : ~HasKey(labelLegend', labels[i])
       THEN /\ Raise("labelsAsInt")
            /\ UNCHANGED labelsAsInt
       ELSE /\ labelsAsInt' = [i \in DOMAIN labels |-> labelLegend'[labels[i]]]
            /\ Goto("prep_tokenize")
    /\ UNCHANGED <<files, runs, labels, texts, sequences, X, y, ind_train, ind_test,
                   tokenizer, X_train, X_test, y_train, y_test,
                   trainVars, model, inferVars>>

\* tokenizer = Tokenizer(num_words=MAX_NUM_WORDS); fit_on_texts; texts_to_sequences
PrepTokenize ==
    /\ pc = "prep_tokenize"
    /\ tokenizer' = fit_on_texts(Tokenizer(MAX_NUM_WORDS), texts)
    /\ sequences' = texts_to_sequences(tokenizer', texts)
    /\ Goto("prep_pad")
    /\ UNCHANGED <<files, runs, labels, texts, labelsAsInt, X, y, ind_train, ind_test,
                   labelLegend, labelLegendInverted, X_train, X_test, y_train, y_test,
                   trainVars, model, inferVars>>

\* X = pad_sequences(sequences, maxlen=MAX_SEQ_LENGTH)
PrepPad ==
    /\ pc = "prep_pad"
    /\ X' = pad_sequences(sequences, MAX_SEQ_LENGTH)
    /\ Goto("prep_categorical")
    /\ UNCHANGED <<files, runs, labels, texts, labelsAsInt, sequences, y, ind_train,
                   ind_test, sharedVars, trainVars, model, inferVars>>

\* y = to_categorical(np.asarray(labelsAsInt))
PrepCategorical ==
    /\ pc = "prep_categorical"
    /\ IF to_categorical_raises(labelsAsInt)
       THEN Raise("to_categorical") /\ UNCHANGED y
       ELSE y' = to_categorical(labelsAsInt) /\ Goto("prep_split")
    /\ UNCHANGED <<files, runs, labels, texts, labelsAsInt, sequences, X, ind_train,
                   ind_test, sharedVars, trainVars, model, inferVars>>

\* PrepSplit with y split in a call of its own that does not shuffle: the
\* first rows of y are the train labels, the last ones the test labels.
PrepSplit_Unpaired ==
    /\ pc = "prep_split"
    /\ IF train_test_split_raises(Len(X))
       THEN /\ Raise("train_test_split")
            /\ UNCHANGED <<ind_train, ind_test, X_train, X_test, y_train, y_test>>
       ELSE /\ ind_train' = ind_train_of(Len(X))
            /\ ind_test' = ind_test_of(Len(X))
            /\ X_train' = Take(X, ind_train')
            /\ X_test' = Take(X, ind_test')
            /\ y_train' = SubSeq(y, 1, n_train_of(Len(y)))
            /\ y_test' = SubSeq(y, n_train_of(Len(y)) + 1, Len(y))
            /\ Goto("prep_dump")
    /\ UNCHANGED <<files, runs, labels, texts, labelsAsInt, sequences, X, y,
                   labelLegend, labelLegendInverted, tokenizer,
                   trainVars, model, inferVars>>

\* X_train, X_test, y_train, y_test = train_test_split(X, y, test_size=0.33, random_state=42)
PrepSplit ==
    /\ pc = "prep_split"
    /\ IF train_test_split_raises(Len(X))
       THEN /\ Raise("train_test_split")
            /\ UNCHANGED <<ind_train, ind_test, X_train, X_test, y_train, y_test>>
       ELSE /\ ind_train' = ind_train_of(Len(X))
            /\ ind_test' = ind_test_of(Len(X))
            /\ X_train' = Take(X, ind_train')
            /\ X_test' = Take(X, ind_test')
            /\ y_train' = Take(y, ind_train')
            /\ y_test' = Take(y, ind_test')
            /\ Goto("prep_dump")
    /\ UNCHANGED <<files, runs, labels, texts, labelsAsInt, sequences, X, y,
                   labelLegend, labelLegendInverted, tokenizer,
                   trainVars, model, inferVars>>

\* trainingData = {...}
trainingData ==
    [X_train |-> X_train, X_test |-> X_test, y_train |-> y_train, y_test |-> y_test,
     max_words |-> MAX_NUM_WORDS, max_seq_length |-> MAX_SEQ_LENGTH,
     label_legend |-> labelLegend, label_legend_inverted |-> labelLegendInverted,
     tokenizer |-> tokenizer]

\* with open(trainingDumpFile, 'wb') as f: pickle.dump(trainingData, f)
PrepDump ==
    /\ pc = "prep_dump"
    /\ dumpFile' = <<trainingData>>
    /\ Goto("prep_done")
    /\ UNCHANGED <<csvFile, modelFile, metadataFile, tokenizerFile, runs,
                   prepVars, sharedVars, trainVars, model, inferVars>>

----------------------------------------------------------------------------
(* Model Trainer *)

\* The keys the trainer reads from the bundle.
TrainerKeys ==
    {"X_test", "X_train", "y_test", "y_train", "label_legend_inverted",
     "label_legend", "max_seq_length", "max_words", "tokenizer"}

\* TrainLoad without tokenizer = data['tokenizer']: the trainer goes on with
\* the tokenizer the kernel holds.
TrainLoad_KeepsTokenizer ==
    /\ AtRest /\ runs < MaxRuns
    /\ runs' = runs + 1
    /\ IF dumpFile = <<>>
       THEN /\ Raise("pickle.load")
            /\ UNCHANGED <<sharedVars, trainVars>>
       ELSE LET data == dumpFile[1] IN
            IF \E k \in TrainerKeys : ~HasKey(data, k)
            THEN /\ Raise("data[key]")
                 /\ UNCHANGED <<sharedVars, trainVars>>
            ELSE /\ X_test' = data.X_test
                 /\ X_train' = data.X_train
                 /\ y_test' = data.y_test
                 /\ y_train' = data.y_train
                 /\ labelLegendInverted' = data.label_legend_inverted
                 /\ labelLegend' = data.label_legend
                 /\ maxSeqLength' = data.max_seq_length
                 /\ maxNumWords' = data.max_words
                 /\ UNCHANGED tokenizer
                 /\ Goto("train_define")
    /\ UNCHANGED <<files, prepVars, model, inferVars>>

\* data = pickle.load(open(trainingDumpFile, 'rb')); X_test = data['X_test']; ...
TrainLoad ==
    /\ AtRest /\ runs < MaxRuns
    /\ runs' = runs + 1
    /\ IF dumpFile = <<>>
       THEN /\ Raise("pickle.load")
            /\ UNCHANGED <<sharedVars, trainVars>>
       ELSE LET data == dumpFile[1] IN
            IF \E k \in TrainerKeys : ~HasKey(data, k)
            THEN /\ Raise("data[key]")
                 /\ UNCHANGED <<sharedVars, trainVars>>
            ELSE /\ X_test' = data.X_test
                 /\ X_train' = data.X_train
                 /\ y_test' = data.y_test
                 /\ y_train' = data.y_train
                 /\ labelLegendInverted' = data.label_legend_inverted
                 /\ labelLegend' = data.label_legend
                 /\ maxSeqLength' = data.max_seq_length
                 /\ maxNumWords' = data.max_words
                 /\ tokenizer' = data.tokenizer
                 /\ Goto("train_define")
    /\ UNCHANGED <<files, prepVars, model, inferVars>>

\* model = Sequential(); model.add(Embedding(...)); ...; model.compile(...)
TrainDefine ==
    /\ pc = "train_define"
    /\ model' = Sequential(maxNumWords, Len(X_train[1]))
    /\ Goto("train_fit")
    /\ UNCHANGED <<files, runs, prepVars, sharedVars, trainVars, inferVars>>

\* model.fit(X_train, y_train, validation_data=(X_test, y_test), ...)
TrainFit ==
    /\ pc = "train_fit"
    /\ IF fit_raises(model, X_train, y_train) \/ fit_raises(model, X_test, y_test)
       THEN Raise("model.fit") /\ UNCHANGED model
       ELSE model' = fitted_model(model, X_train, y_train) /\ Goto("train_save_model")
    /\ UNCHANGED <<files, runs, prepVars, sharedVars, trainVars, inferVars>>

\* model.save(trainedModelFile)
TrainSaveModel ==
    /\ pc = "train_save_model"
    /\ modelFile' = <<model>>
    /\ Goto("train_save_metadata")
    /\ UNCHANGED <<csvFile, dumpFile, metadataFile, tokenizerFile, runs,
                   prepVars, sharedVars, trainVars, model, inferVars>>

\* metadataForExport with the two constants under each other's key.
metadataForExport_Swapped ==
    [label_legend_inverted |-> labelLegendInverted,
     label_legend |-> labelLegend,
     max_seq_length |-> maxNumWords,
     max_words |-> maxSeqLength]

\* metadataForExport = {...}
metadataForExport ==
    [label_legend_inverted |-> labelLegendInverted,
     label_legend |-> labelLegend,
     max_seq_length |-> maxSeqLength,
     max_words |-> maxNumWords]

\* json.dump(metadataForExport, open(trainedMetadataFile, 'w'))
TrainSaveMetadata ==
    /\ pc = "train_save_metadata"
    /\ metadataFile' = <<json_dump(metadataForExport)>>
    /\ Goto("train_save_tokenizer")
    /\ UNCHANGED <<csvFile, dumpFile, modelFile, tokenizerFile, runs,
                   prepVars, sharedVars, trainVars, model, inferVars>>

\* tokenizerJson = tokenizer.to_json(); f.write(tokenizerJson)
TrainSaveTokenizer ==
    /\ pc = "train_save_tokenizer"
    /\ tokenizerFile' = <<to_json(tokenizer)>>
    /\ Goto("train_done")
    /\ UNCHANGED <<csvFile, dumpFile, modelFile, metadataFile, runs,
                   prepVars, sharedVars, trainVars, model, inferVars>>

----------------------------------------------------------------------------
(* Test the trained model *)

\* tokenizer = tokenizer_from_json(...); metadata = json.load(...);
\* model = models.load_model(trainedModelFile)
InferLoad ==
    /\ AtRest /\ runs < MaxRuns
    /\ runs' = runs + 1
    /\ IF tokenizerFile = <<>>
       THEN /\ Raise("tokenizer_from_json")
            /\ UNCHANGED <<tokenizer, metadata, model>>
       ELSE /\ tokenizer' = tokenizer_from_json(tokenizerFile[1])
            /\ IF metadataFile = <<>>
               THEN /\ Raise("json.load")
                    /\ UNCHANGED <<metadata, model>>
               ELSE /\ metadata' = json_load(metadataFile[1])
                    /\ IF modelFile = <<>>
                       THEN Raise("load_model") /\ UNCHANGED model
                       ELSE model' = modelFile[1] /\ Goto("infer_ready")
    /\ UNCHANGED <<files, prepVars, labelLegend, labelLegendInverted,
                   X_train, X_test, y_train, y_test, trainVars, st, xInput, preds>>

\* Predict fitting the tokenizer on the text before it encodes it.
Predict_Refit ==
    /\ pc = "infer_ready"
    /\ \E text \in PredictTexts :
        /\ st' = text
        /\ tokenizer' = fit_on_texts(tokenizer, <<text>>)
        /\ xInput' = pad_sequences(texts_to_sequences(tokenizer', <<text>>),
                                   metadata.max_seq_length)
        /\ preds' = labeledPredictions_of(metadata.label_legend_inverted, predict_row(model))
        /\ Goto("infer_ready")
    /\ UNCHANGED <<files, runs, prepVars, labelLegend, labelLegendInverted,
                   X_train, X_test, y_train, y_test, trainVars, model, metadata>>

\* predictSpamStatus(text, spamModel, pMaxSequence, pLabelLegendInverted, pTokenizer):
\* the model input it builds
predictInput(text, pMaxSequence, pTokenizer) ==
    pad_sequences(texts_to_sequences(pTokenizer, <<text>>), pMaxSequence)

\* spamModel.predict raises when the input does not have the model's input length.
predict_raises(spamModel, input) == Len(input[1]) # spamModel.input_length

\* preds = predictSpamStatus(st, model, metadata['max_seq_length'],
\*                           metadata['label_legend_inverted'], tokenizer)
Predict ==
    /\ pc = "infer_ready"
    /\ \E text \in PredictTexts :
        /\ st' = text
        /\ IF ~HasKey(metadata, "max_seq_length") \/ ~HasKey(metadata, "label_legend_inverted")
           THEN Raise("metadata[key]") /\ UNCHANGED <<xInput, preds>>
           ELSE /\ xInput' = predictInput(text, metadata.max_seq_length, tokenizer)
                /\ IF predict_raises(model, xInput')
                   THEN Raise("predict") /\ UNCHANGED preds
                   ELSE IF labeledPredictions_raises(metadata.label_legend_inverted,
                                                     predict_row(model))
                        THEN Raise("labeledPredictions") /\ UNCHANGED preds
                        ELSE /\ preds' = labeledPredictions_of(
                                            metadata.label_legend_inverted, predict_row(model))
                             /\ Goto("infer_ready")
    /\ UNCHANGED <<files, runs, prepVars, sharedVars, trainVars, model, metadata>>

----------------------------------------------------------------------------

Next ==
    \/ PrepReadCsv \/ PrepLegend \/ PrepTokenize \/ PrepPad
    \/ PrepCategorical \/ PrepSplit \/ PrepDump
    \/ TrainLoad \/ TrainDefine \/ TrainFit
    \/ TrainSaveModel \/ TrainSaveMetadata \/ TrainSaveTokenizer
    \/ InferLoad \/ Predict

Spec == Init /\ [][Next]_vars

----------------------------------------------------------------------------
(* The notebook run again and again on an input file that changes between *)
(* runs, with exports that can fail                                       *)

\* "ham,free Win !! free" / "spam,win ?? Call win"
RowsA == <<[label |-> "ham", text |-> TextA], [label |-> "spam", text |-> TextB]>>

\* three rows, with other words and another order
RowsB ==
    <<[label |-> "spam", text |-> TextB], [label |-> "ham", text |-> TextA],
      [label |-> "spam", text |-> TextN]>>

\* a single row: the split raises on it
RowsC == <<[label |-> "spam", text |-> TextN]>>

RunCsvRows == {RowsA, RowsB, RowsC}

RunCsvFiles == {<<[parses |-> TRUE, rows |-> r]>> : r \in RunCsvRows}

InitRuns == Init /\ csvFile \in RunCsvFiles

\* Between two runs another file is put at datasetInputFile.
ReplaceCsv ==
    /\ AtRest
    /\ csvFile' \in RunCsvFiles \ {csvFile}
    /\ UNCHANGED <<dumpFile, modelFile, metadataFile, tokenizerFile, control,
                   prepVars, sharedVars, trainVars, model, inferVars>>

\* model.save, json.dump / open(..., 'w') or f.write raises (no space, no
\* permission, no directory) before it has written: the file at its path is
\* as it was, and the cells after it are not run.
TrainExportFails ==
    /\ pc \in {"train_save_model", "train_save_metadata", "train_save_tokenizer"}
    /\ Raise(CASE pc = "train_save_model" -> "model.save"
               [] pc = "train_save_metadata" -> "json.dump"
               [] pc = "train_save_tokenizer" -> "tokenizer.write")
    /\ UNCHANGED <<files, runs, prepVars, sharedVars, trainVars, model, inferVars>>

NextRuns ==
    \/ PrepReadCsv \/ PrepLegend \/ PrepTokenize \/ PrepPad
    \/ PrepCategorical \/ PrepSplit \/ PrepDump
    \/ TrainLoad \/ TrainDefine \/ TrainFit
    \/ TrainSaveModel \/ TrainSaveMetadata \/ TrainSaveTokenizer
    \/ InferLoad \/ Predict
    \/ ReplaceCsv \/ TrainExportFails

SpecRuns == InitRuns /\ [][NextRuns]_vars

----------------------------------------------------------------------------
(* Claims *)

CsvRowCount == IF csvFile = <<>> THEN 0 ELSE Len(csvFile[1].rows)

\* The preparer run in progress is past pad_sequences, or was ended by a later cell.
PadDone ==
    \/ pc \in {"prep_categorical", "prep_split", "prep_dump", "prep_done"}
    \/ pc = "raised" /\ raisedAt \in {"to_categorical", "train_test_split"}

\* C1: whatever the input CSV, X has one row per input record and every row
\* of X has exactly MAX_SEQ_LENGTH entries.
C1_RowsHaveMaxSeqLength ==
    PadDone =>
        /\ Len(X) = CsvRowCount
        /\ \A r \in DOMAIN X : Len(X[r]) = MAX_SEQ_LENGTH

\* X holds the row of a text with no word in the vocabulary and the row of a
\* text with more than MAX_SEQ_LENGTH words in the vocabulary.
C1_Witness ==
    /\ PadDone
    /\ \E r \in DOMAIN sequences : Len(sequences[r]) = 0
    /\ \E r \in DOMAIN sequences : Len(sequences[r]) > MAX_SEQ_LENGTH
    /\ Len(X) = 2

\* The preparer run in progress is past to_categorical, or was ended by the split.
CategoricalDone ==
    \/ pc \in {"prep_split", "prep_dump", "prep_done"}
    \/ pc = "raised" /\ raisedAt = "train_test_split"

RECURSIVE SeqSum(_)
SeqSum(row) == IF Len(row) = 0 THEN 0 ELSE row[1] + SeqSum(Tail(row))

\* C2: for labels drawn from {ham, spam}, a list of only ham or only spam
\* rows included, y has one row per record, each row holds a single 1, in
\* column labelLegend[label], and 0 elsewhere, and y has exactly 2 columns.
C2_OneHotTwoColumns ==
    CategoricalDone =>
        /\ Len(y) = CsvRowCount
        /\ \A r \in DOMAIN y :
            /\ Len(y[r]) = Cardinality(DOMAIN LabelLegend)
            /\ SeqSum(y[r]) = 1
            /\ \A c \in DOMAIN y[r] : y[r][c] = 1 <=> c - 1 = LabelLegend[labels[r]]

\* The train_test_split cell has been run: it returned, or it raised.
SplitAttempted ==
    \/ pc \in {"prep_dump", "prep_done"}
    \/ pc = "raised" /\ raisedAt = "train_test_split"

\* Every record is in exactly one of the two partitions.
Partitioned ==
    /\ Range(ind_train) \cap Range(ind_test) = {}
    /\ Range(ind_train) \cup Range(ind_test) = 1..CsvRowCount
    /\ Cardinality(Range(ind_train)) = Len(ind_train)
    /\ Cardinality(Range(ind_test)) = Len(ind_test)
    /\ Len(X_train) = Len(ind_train) /\ Len(X_test) = Len(ind_test)
    /\ Len(X_train) + Len(X_test) = CsvRowCount

\* C3 as stated: for every input CSV with at least one row, the split puts
\* every record in exactly one of the train and the test partition.
C3_SplitPartitions_AtLeastOneRow ==
    (SplitAttempted /\ CsvRowCount >= 1) => Partitioned

\* C3, amended: for every input CSV with at least two rows, the split puts
\* every record in exactly one of the train and the test partition, and the
\* train rows and the test rows together number the input rows.
C3_SplitPartitions_AtLeastTwoRows ==
    (SplitAttempted /\ CsvRowCount >= 2) => Partitioned

\* The split of a three-row CSV has returned.
C3_Witness ==
    /\ pc = "prep_dump"
    /\ CsvRowCount = 3
    /\ Len(X_train) = 2 /\ Len(X_test) = 1

\* A fit_on_texts has built the vocabulary the name tokenizer holds.
VocabularyBuilt == tokenizer.document_count > 0

\* C4: once fit_on_texts has built the vocabulary, no step changes the
\* word-to-index mapping or the cap, and every text encodes to the same
\* sequence before and after any step.
C4_VocabularyFrozen ==
    [][VocabularyBuilt =>
          /\ tokenizer'.word_index = tokenizer.word_index
          /\ tokenizer'.num_words = tokenizer.num_words
          /\ \A text \in PredictTexts :
                text_to_sequence(tokenizer', text) = text_to_sequence(tokenizer, text)]_vars

\* The text the preparer encoded first, with another text after it, has been
\* encoded again by predictSpamStatus, to the same row.
C4_Witness ==
    /\ pc = "infer_ready"
    /\ VocabularyBuilt
    /\ st = TextA
    /\ xInput # <<>>
    /\ Len(texts) = 2 /\ texts[1] = TextA /\ texts[2] = TextB
    /\ xInput[1] = X[1]

\* predictSpamStatus has built a model input since the artifacts were loaded.
Predicted == pc = "infer_ready" /\ xInput # <<>>

\* C5: the model input row predictSpamStatus builds from the tokenizer JSON
\* and the metadata JSON equals the row the preparer builds for the same
\* text with the tokenizer it fitted and MAX_SEQ_LENGTH.
C5_InferenceRowEqualsPreparerRow ==
    Predicted =>
        /\ Len(xInput) = 1
        /\ xInput[1] = pad_row(text_to_sequence(dumpFile[1].tokenizer, st), MAX_SEQ_LENGTH)
        /\ \A r \in DOMAIN texts : texts[r] = st => xInput[1] = X[r]

\* The text predicted is a text of the CSV, with words beyond the cap and
\* more than MAX_SEQ_LENGTH words within it.
C5_Witness ==
    /\ Predicted
    /\ st = BigText
    /\ \E r \in DOMAIN texts : texts[r] = st /\ Len(sequences[r]) > MAX_SEQ_LENGTH
    /\ Cardinality(DOMAIN tokenizer.word_index) > MAX_NUM_WORDS

\* The words of the whole corpus, in order.
CorpusWords == Flatten([t \in DOMAIN texts |-> text_to_word_sequence(texts[t])])

\* How often each word of the corpus occurs in it.
FrequencyIn(flat) ==
    [w \in Range(flat) |-> Cardinality({i \in DOMAIN flat : flat[i] = w})]

\* Where each word of the corpus occurs first.
FirstPositionIn(flat) ==
    [w \in Range(flat) |-> CHOOSE i \in DOMAIN flat :
                              flat[i] = w /\ \A j \in 1..(i - 1) : flat[j] # w]

\* The frequency rank of each word: 1 for the most frequent word, words of
\* equal frequency ranked in the order of their first occurrence.
FrequencyRank(freq, first) ==
    [w \in DOMAIN freq |->
        1 + Cardinality({v \in DOMAIN freq :
                \/ freq[v] > freq[w]
                \/ freq[v] = freq[w] /\ first[v] < first[w]})]

\* The vocabulary indexes of the words of text whose rank is at most n, in
\* their order of occurrence.
IndexesOfRanked(text, rank, n) ==
    IndexesOf(tokenizer, SelectSeq(text_to_word_sequence(text), LAMBDA w : rank[w] <= n))

\* Every sequence keeps exactly the words of the n most frequent ranks.
EncodesMostFrequent(rank, n) ==
    /\ \A w \in DOMAIN rank : tokenizer.word_index[w] = rank[w]
    /\ \A t \in DOMAIN texts : sequences[t] = IndexesOfRanked(texts[t], rank, n)

EncodesTop(n) ==
    \A flat \in {CorpusWords} :
        \A freq \in {FrequencyIn(flat)}, first \in {FirstPositionIn(flat)} :
            \A rank \in {FrequencyRank(freq, first)} : EncodesMostFrequent(rank, n)

\* The tokenization cell of the preparer has just run.
TokenizeDone == pc = "prep_pad"

\* C6 as stated: a word occurrence is kept if and only if the word's
\* frequency rank is at most MAX_NUM_WORDS, as the word's vocabulary index,
\* in the order of occurrence.
C6_KeepsRanksUpToMaxNumWords == TokenizeDone => EncodesTop(MAX_NUM_WORDS)

\* C6, amended: a word occurrence is kept if and only if the word's
\* frequency rank is at most MAX_NUM_WORDS - 1, as the word's vocabulary
\* index (which is its rank), in the order of occurrence.
C6_KeepsRanksBelowMaxNumWords == TokenizeDone => EncodesTop(MAX_NUM_WORDS - 1)

\* The corpus has more than MAX_NUM_WORDS distinct words, so some are dropped.
C6_Witness ==
    /\ TokenizeDone
    /\ \E w \in DOMAIN tokenizer.word_index : tokenizer.word_index[w] = MAX_NUM_WORDS
    /\ \E t \in DOMAIN texts :
          Len(sequences[t]) > 0 /\ Len(sequences[t]) < Len(text_to_word_sequence(texts[t]))

MetadataKeys == {"label_legend", "label_legend_inverted", "max_seq_length", "max_words"}

\* C7: the metadata JSON has exactly the four keys label_legend,
\* label_legend_inverted, max_seq_length and max_words, each with the value
\* the preparer stored in the bundle under that key, and the trainer reads
\* from the bundle only keys the preparer wrote.
C7_MetadataMatchesBundle ==
    /\ dumpFile # <<>> => TrainerKeys \subseteq DOMAIN dumpFile[1]
    /\ metadataFile # <<>> =>
        /\ DOMAIN metadataFile[1] = MetadataKeys
        /\ dumpFile # <<>>
        /\ \A k \in MetadataKeys : json_load(metadataFile[1])[k] = dumpFile[1][k]
        /\ json_load(metadataFile[1]).max_seq_length = MAX_SEQ_LENGTH
        /\ json_load(metadataFile[1]).max_words = MAX_NUM_WORDS

\* The trainer has written the metadata JSON.
C7_Witness ==
    /\ pc = "train_save_tokenizer"
    /\ metadataFile # <<>>
    /\ metadataFile[1].max_seq_length = str(MAX_SEQ_LENGTH)

\* inv maps the string form of each class's integer back to the class, and
\* there are exactly two classes.
InverseOf(legend, inv) ==
    /\ Cardinality(DOMAIN legend) = 2
    /\ Cardinality(DOMAIN inv) = 2
    /\ \A k \in DOMAIN legend : HasKey(inv, str(legend[k])) /\ inv[str(legend[k])] = k

\* C8: labelLegendInverted[str(labelLegend[k])] = k for each of the two
\* classes, in the kernel, in the pickle bundle and in the metadata JSON, and
\* predictSpamStatus labels output position i with the class k for which
\* labelLegend[k] = i: ham is position 0 and spam position 1.
C8_LegendInverse ==
    /\ DOMAIN labelLegend # {} => InverseOf(labelLegend, labelLegendInverted)
    /\ dumpFile # <<>> =>
          InverseOf(dumpFile[1].label_legend, dumpFile[1].label_legend_inverted)
    /\ metadataFile # <<>> =>
          InverseOf(json_load(metadataFile[1]).label_legend,
                    json_load(metadataFile[1]).label_legend_inverted)
    /\ pc = "infer_ready" =>
          /\ InverseOf(metadata.label_legend, metadata.label_legend_inverted)
          /\ DOMAIN preds # {} =>
                /\ DOMAIN preds = {"ham", "spam"}
                /\ preds["ham"] = <<"p", 0>>
                /\ preds["spam"] = <<"p", 1>>
                /\ \A k \in DOMAIN preds : preds[k] = <<"p", metadata.label_legend[k]>>

\* predictSpamStatus has returned its labelled predictions.
C8_Witness ==
    /\ pc = "infer_ready"
    /\ DOMAIN preds = {"ham", "spam"}
    /\ st = TextOov

\* C9: once a preparer run has written the bundle, a later run on the same
\* CSV rebuilds the same X and y and writes the same bundle (vocabulary,
\* partitions, legend and constants), whatever the earlier runs left behind.
C9_PreparerReproducible ==
    [][dumpFile # <<>> => (dumpFile' = dumpFile /\ X' = X /\ y' = y)]_vars

\* A preparer run has completed after a trainer run that read the bundle of
\* an earlier preparer run.
C9_Witness ==
    /\ pc = "prep_done"
    /\ modelFile # <<>>
    /\ tokenizerFile # <<>>
    /\ Len(X_train) >= 2

\* The statements of the preparer and of the trainer that can raise.
CsvFails ==
    \/ csvFile = <<>>
    \/ ~csvFile[1].parses
    \/ \E r \in DOMAIN csvFile[1].rows : ~HasKey(LabelLegend, csvFile[1].rows[r].label)
    \/ to_categorical_raises(csvFile[1].rows)
    \/ train_test_split_raises(Len(csvFile[1].rows))

BundleFails ==
    \/ dumpFile = <<>>
    \/ \E r \in DOMAIN dumpFile[1].y_train : Len(dumpFile[1].y_train[r]) # DENSE_UNITS

\* C10: a failing step ends the run: the step that raises writes no file, the
\* only step after it is the first cell of a new run, a CSV on which a
\* preparer step fails never yields a bundle, and a bundle that is missing
\* or on which the fit fails never yields any of the three artifacts.
C10_FailureEndsRun ==
    /\ [](CsvFails => dumpFile = <<>>)
    /\ [](BundleFails => (modelFile = <<>> /\ metadataFile = <<>> /\ tokenizerFile = <<>>))
    /\ [][pc' = "raised" => files' = files]_vars
    /\ [][pc = "raised" => runs' = runs + 1]_vars

\* The fit raised on the shapes of the bundle: no artifact was written.
C10_Witness ==
    /\ pc = "raised"
    /\ raisedAt = "model.fit"
    /\ dumpFile # <<>>
    /\ modelFile = <<>> /\ metadataFile = <<>> /\ tokenizerFile = <<>>

\* C12: padding is on the left with the value 0, which is no word's index:
\* the row of a text whose sequence s is no longer than MAX_SEQ_LENGTH is
\* MAX_SEQ_LENGTH - Len(s) zeros followed by s unchanged, every index of the
\* vocabulary and every entry of a sequence is a positive integer, and a 0
\* in such a row stands only at a padding position.
C12_LeftPaddedWithZero ==
    /\ \A w \in DOMAIN tokenizer.word_index : tokenizer.word_index[w] \in Nat \ {0}
    /\ PadDone =>
          \A r \in DOMAIN sequences :
              /\ \A k \in DOMAIN sequences[r] : sequences[r][k] \in Nat \ {0}
              /\ Len(sequences[r]) <= MAX_SEQ_LENGTH =>
                    /\ X[r] = [i \in 1..(MAX_SEQ_LENGTH - Len(sequences[r])) |-> 0]
                                 \o sequences[r]
                    /\ \A i \in DOMAIN X[r] :
                          X[r][i] = 0 <=> i <= MAX_SEQ_LENGTH - Len(sequences[r])

\* X holds the row of a text with some words, fewer than MAX_SEQ_LENGTH: the
\* row starts with padding and ends with the last word of the text.
C12_Witness ==
    /\ PadDone
    /\ \E r \in DOMAIN sequences :
          /\ Len(sequences[r]) \in 2..(MAX_SEQ_LENGTH - 1)
          /\ X[r][1] = 0
          /\ X[r][MAX_SEQ_LENGTH] = sequences[r][Len(sequences[r])]

\* Row i of Xp and row i of yp are the rows X and y hold for one and the same
\* input record, the record ind[i].
PairedBy(Xp, yp, ind) ==
    /\ Len(Xp) = Len(ind)
    /\ Len(yp) = Len(ind)
    /\ \A i \in DOMAIN ind : Xp[i] = X[ind[i]] /\ yp[i] = y[ind[i]]

\* C13: the split keeps every record's sequence and label together: row i of
\* X_train and row i of y_train belong to the same input record, likewise
\* for X_test and y_test, so each pair of partitions has the same number of
\* rows; this holds for the partitions in the kernel, for those in the
\* bundle, for the pairs the trainer is about to fit and to validate on, and
\* for the pairs the weights of the saved model were fitted on.
C13_SplitKeepsPairs ==
    /\ pc \in {"prep_dump", "prep_done", "train_fit"} =>
          /\ PairedBy(X_train, y_train, ind_train)
          /\ PairedBy(X_test, y_test, ind_test)
    /\ dumpFile # <<>> =>
          /\ PairedBy(dumpFile[1].X_train, dumpFile[1].y_train, ind_train)
          /\ PairedBy(dumpFile[1].X_test, dumpFile[1].y_test, ind_test)
    /\ model.fitted => PairedBy(model.weights.X, model.weights.y, ind_train)
    /\ modelFile # <<>> =>
          PairedBy(modelFile[1].weights.X, modelFile[1].weights.y, ind_train)

\* The trainer has fitted and saved a model on train pairs that the split
\* moved: two records with different labels and different sequences, the
\* second of them not at its own row number.
C13_Witness ==
    /\ pc = "train_done"
    /\ modelFile # <<>>
    /\ \E i, j \in DOMAIN modelFile[1].weights.X :
          /\ modelFile[1].weights.X[i] # modelFile[1].weights.X[j]
          /\ modelFile[1].weights.y[i] # modelFile[1].weights.y[j]
          /\ ind_train[j] # j
    /\ Len(y_test) >= 1

\* Every row has the input length of the embedding layer of m, and every
\* entry of every row is an index of that layer and below max_words.
FitsEmbedding(rows, m, max_words) ==
    /\ m.input_dim = max_words
    /\ \A r \in DOMAIN rows :
          /\ Len(rows[r]) = m.input_length
          /\ \A i \in DOMAIN rows[r] : rows[r][i] \in 0..(max_words - 1)

\* C14: every entry of every row fed to the model is an integer v with
\* 0 <= v <= max_words - 1, an index of the embedding layer built with input
\* size max_words, and every such row has as many columns as the input length
\* that layer was built with: the rows of X_train and X_test the trainer
\* passes to fit, the rows the saved weights were fitted on, and the row
\* predictSpamStatus has built for a text.
C14_RowsIndexEmbedding ==
    /\ pc = "train_fit" =>
          /\ FitsEmbedding(X_train, model, maxNumWords)
          /\ FitsEmbedding(X_test, model, maxNumWords)
    /\ modelFile # <<>> /\ dumpFile # <<>> =>
          FitsEmbedding(modelFile[1].weights.X, modelFile[1], dumpFile[1].max_words)
    /\ Predicted =>
          FitsEmbedding(xInput, model, metadata.max_words)

\* predictSpamStatus has built the row of a text with more than
\* MAX_SEQ_LENGTH kept words, the word of the largest index,
\* MAX_NUM_WORDS - 1, among them, for a model fitted on that text.
C14_Witness ==
    /\ Predicted
    /\ st = BigText
    /\ model.fitted
    /\ \E i \in DOMAIN xInput[1] : xInput[1][i] = MAX_NUM_WORDS - 1
    /\ \E r \in DOMAIN model.weights.X : model.weights.X[r] = xInput[1]

\* The bundle a preparer run writes for a CSV with these rows.
PreparedBundle(rows) ==
    Only({ Only({ Only({
        [X_train |-> Take(Xs, ind_train_of(Len(rows))),
         X_test |-> Take(Xs, ind_test_of(Len(rows))),
         y_train |-> Take(ys, ind_train_of(Len(rows))),
         y_test |-> Take(ys, ind_test_of(Len(rows))),
         max_words |-> MAX_NUM_WORDS, max_seq_length |-> MAX_SEQ_LENGTH,
         label_legend |-> LabelLegend,
         label_legend_inverted |-> InvertLegend(LabelLegend),
         tokenizer |-> tok]
      : ys \in {to_categorical([i \in DOMAIN rows |-> LabelLegend[rows[i].label]])} })
      : Xs \in {pad_sequences(texts_to_sequences(
                    tok, [i \in DOMAIN rows |-> rows[i].text]), MAX_SEQ_LENGTH)} })
      : tok \in {fit_on_texts(Tokenizer(MAX_NUM_WORDS),
                              [i \in DOMAIN rows |-> rows[i].text])} })

\* The bundles of the input files on which the preparer does not raise.
PreparedBundles ==
    {PreparedBundle(rows) : rows \in {r \in RunCsvRows : ~train_test_split_raises(Len(r))}}

AllArtifactsPresent == modelFile # <<>> /\ metadataFile # <<>> /\ tokenizerFile # <<>>

\* The three files are what a trainer run writes from the bundle b.
DerivedFrom(b) ==
    /\ modelFile =
          <<fitted_model(Sequential(b.max_words, Len(b.X_train[1])), b.X_train, b.y_train)>>
    /\ metadataFile =
          <<json_dump([label_legend_inverted |-> b.label_legend_inverted,
                       label_legend |-> b.label_legend,
                       max_seq_length |-> b.max_seq_length,
                       max_words |-> b.max_words])>>
    /\ tokenizerFile = <<to_json(b.tokenizer)>>

\* All three files derive from one and the same prepared bundle.
MatchedSet == \E b \in PreparedBundles : DerivedFrom(b)

ExportSteps == {"train_save_model", "train_save_metadata", "train_save_tokenizer"}

\* C11, as stated: in every reachable state of the output location, whatever
\* preparer and trainer runs came before, runs ended by a failure between two
\* exports included, the model file, the metadata JSON and the tokenizer
\* JSON, when all three are present, derive from the same prepared bundle.
C11_PresentArtifactsMatch ==
    AllArtifactsPresent => MatchedSet

\* C11, amended: the bundle file always holds a bundle a preparer run wrote;
\* when a trainer run has completed its three exports, the three files are
\* all present and derive from the bundle that run loaded; and files that
\* are a matched set stay one through every step but an export step of a
\* trainer run.
C11_CompletedExportsMatch ==
    /\ [](dumpFile # <<>> => dumpFile[1] \in PreparedBundles)
    /\ [](pc = "train_done" => AllArtifactsPresent /\ DerivedFrom(dumpFile[1]))
    /\ [][(AllArtifactsPresent /\ MatchedSet /\ pc \notin ExportSteps) => MatchedSet']_vars

\* A trainer run, the last run the bound allows, has completed its exports
\* from the bundle of RowsB, and the input file has been replaced since that
\* bundle was written.
C11_Witness ==
    /\ pc = "train_done"
    /\ runs = MaxRuns
    /\ dumpFile = <<PreparedBundle(RowsB)>>
    /\ DerivedFrom(PreparedBundle(RowsB))
    /\ csvFile[1].rows = RowsC

\* A trainer run was ended by a failure after model.save: its model file
\* stands beside the metadata and the tokenizer of an earlier run.
AbortedBetweenExports ==
    /\ pc = "raised"
    /\ raisedAt = "json.dump"
    /\ AllArtifactsPresent
    /\ ~MatchedSet

====
